---- MODULE Spec2Model ----
(***************************************************************************)
(* Pricing / ranking engine of aresSTAGE: price conversion                 *)
(* (utils/pricing.py), probability estimation (services/probabilities.py), *)
(* best-price selection (providers/odds_client.py) and the pick ranker     *)
(* (api_picks_suggest in app.py); then the saved bets (api_save_bet,       *)
(* api_delete_bet), the status rollover (_rollover_game_statuses) and the  *)
(* odds refresh (_update_odds_for_upcoming in sports_collector.py).        *)
(*                                                                         *)
(* Numbers.  A Python float is modelled by an exact rational <<n, d>> in   *)
(* lowest terms with d > 0; float('-inf') is <<-1, 0>>.  Python None is    *)
(* the empty tuple in a numeric or tuple-valued field and the string       *)
(* "None" in a string-valued field.  exp and the Normal CDF are modelled   *)
(* by rational approximations (see exp and cdf below).                     *)
(***************************************************************************)
EXTENDS Integers, Sequences, FiniteSets, TLC

\* g: the game row a handler works on; bms: the bookmaker list of the
\* game's event; ret: the last call or request with its result; db: the
\* tables of the database that handlers and jobs write; reqs: the requests
\* in flight, each with what it has read so far.
VARIABLES g, bms, ret, db, reqs

vars == <<g, bms, ret, db, reqs>>

None == <<>>

NoneStr == "None"

NegInf == <<-1, 0>>

----------------------------------------------------------------------------
(* Exact rational arithmetic standing for float arithmetic.                *)

Abs(x) == IF x < 0 THEN -x ELSE x

RECURSIVE GCD(_, _)
GCD(a, b) == IF b = 0 THEN a ELSE GCD(b, a % b)

\* n/d with the common factor k divided out.
Lowest(n, d, k) == <<n \div k, d \div k>>

Rat(n, d) ==
    IF d < 0 THEN Lowest(-n, -d, GCD(Abs(n), Abs(d)))
    ELSE Lowest(n, d, GCD(Abs(n), Abs(d)))

R(n) == <<n, 1>>

Zero == R(0)

One == R(1)

Half == <<1, 2>>

RNeg(a) == <<-a[1], a[2]>>

\* a + b over the least common denominator, k = gcd of the denominators.
AddOver(a, b, k) ==
    Rat(a[1] * (b[2] \div k) + b[1] * (a[2] \div k), (a[2] \div k) * b[2])

RAdd(a, b) == AddOver(a, b, GCD(a[2], b[2]))

RSub(a, b) == RAdd(a, RNeg(b))

\* a * b with the cross factors k1, k2 divided out before multiplying.
MulOver(a, b, k1, k2) ==
    Rat((a[1] \div k1) * (b[1] \div k2), (a[2] \div k2) * (b[2] \div k1))

RMul(a, b) == MulOver(a, b, GCD(Abs(a[1]), b[2]), GCD(Abs(b[1]), a[2]))

RDiv(a, b) == RMul(a, Rat(b[2], b[1]))

RAbs(a) == <<Abs(a[1]), a[2]>>

\* a/b < c/d for b, d > 0, by comparing continued-fraction expansions (no
\* cross products, so no intermediate exceeds the operands).
RECURSIVE FracLess(_, _, _, _)
FracLess(a, b, c, d) ==
    LET q1 == a \div b
        q2 == c \div d
        r1 == a % b
        r2 == c % d
    IN  IF q1 # q2 THEN q1 < q2
        ELSE IF r2 = 0 THEN FALSE
        ELSE IF r1 = 0 THEN TRUE
        ELSE FracLess(d, r2, b, r1)

\* Float comparison x < y, with float('-inf') below every finite value.
RLess(x, y) ==
    IF y = NegInf THEN FALSE
    ELSE IF x = NegInf THEN TRUE
    ELSE FracLess(x[1], x[2], y[1], y[2])

RLeq(x, y) == ~RLess(y, x)

RMax(x, y) == IF RLess(x, y) THEN y ELSE x

RMin(x, y) == IF RLess(y, x) THEN y ELSE x

----------------------------------------------------------------------------
(* utils/pricing.py                                                        *)

\* american_to_decimal with a negative price treated like a positive one.
american_to_decimal_unsigned(odds) == RAdd(One, RDiv(RAbs(odds), R(100)))

american_to_decimal(odds) ==
    IF RLeq(Zero, odds)
    THEN RAdd(One, RDiv(odds, R(100)))
    ELSE RAdd(One, RDiv(R(100), RAbs(odds)))

\* implied_prob with the negative branch computed on odds instead of
\* abs(odds).
implied_prob_signed(odds) ==
    IF RLeq(Zero, odds)
    THEN RDiv(R(100), RAdd(odds, R(100)))
    ELSE RDiv(odds, RAdd(odds, R(100)))

implied_prob(odds) ==
    IF RLeq(Zero, odds)
    THEN RDiv(R(100), RAdd(odds, R(100)))
    ELSE RDiv(RAbs(odds), RAdd(RAbs(odds), R(100)))

\* remove_vig_two_way with p1 normalised into both components.
remove_vig_two_way_repeated(p1, p2) ==
    LET s == RAdd(p1, p2)
    IN  IF RLeq(s, Zero) THEN <<Half, Half>>
        ELSE <<RDiv(p1, s), RDiv(p1, s)>>

remove_vig_two_way(p1, p2) ==
    LET s == RAdd(p1, p2)
    IN  IF RLeq(s, Zero) THEN <<Half, Half>>
        ELSE <<RDiv(p1, s), RDiv(p2, s)>>

\* ev_from_prob_and_odds with the stake 1 - p added instead of subtracted.
ev_from_prob_and_odds_plus(p, odds) ==
    RAdd(RMul(p, RSub(american_to_decimal(odds), One)), RSub(One, p))

\* payout = dec - 1.0; return p * payout - (1 - p)
ev_from_prob_and_odds(p, odds) ==
    RSub(RMul(p, RSub(american_to_decimal(odds), One)), RSub(One, p))

KellyK == <<1, 4>>

KellyCap == <<1, 50>>

\* KellyOf without the clamp max(0.0, f_star).
KellyOfUnclamped(p, b, k, cap) ==
    IF RLeq(b, Zero) THEN Zero
    ELSE RMin(RMul(RDiv(RSub(RMul(p, RAdd(b, One)), One), b), k), cap)

\* The body of kelly_fraction once b = dec - 1.0 is known:
\* edge = p * (b + 1) - 1; f = max(0, edge / b) * k; return min(f, cap)
KellyOf(p, b, k, cap) ==
    IF RLeq(b, Zero) THEN Zero
    ELSE RMin(RMul(RMax(Zero, RDiv(RSub(RMul(p, RAdd(b, One)), One), b)), k),
              cap)

kelly_fraction(p, odds, k, cap) ==
    KellyOf(p, RSub(american_to_decimal(odds), One), k, cap)

----------------------------------------------------------------------------
(* services/calibration.py                                                 *)

SPREAD_SIGMA ==
    [nfl |-> R(13), nba |-> R(12), mlb |-> R(3), nhl |-> <<9, 5>>,
     cfb |-> R(16), soccer |-> <<3, 2>>, golf |-> R(5)]

ML_MARKET_WEIGHT ==
    [nfl |-> <<17, 20>>, nba |-> <<22, 25>>, mlb |-> <<9, 10>>,
     nhl |-> <<9, 10>>, cfb |-> <<4, 5>>, soccer |-> <<23, 25>>,
     golf |-> <<19, 20>>]

ML_STRENGTH_SLOPE ==
    [nfl |-> R(3), nba |-> <<5, 2>>, mlb |-> <<3, 2>>, nhl |-> <<3, 2>>,
     cfb |-> R(3), soccer |-> <<6, 5>>, golf |-> <<1, 2>>]

\* dict.get(key, default)
DictGet(d, key, default) == IF key \in DOMAIN d THEN d[key] ELSE default

----------------------------------------------------------------------------
(* services/team_strength.py                                               *)

\* get_team_strength that depends on the calls made before: 0.5 on the
\* first call of a session, a stored rating afterwards.
get_team_strength_session(sport, team) ==
    IF ret.op = "none" THEN Half ELSE <<3, 5>>

\* get_team_strength returning a raw rating above 1 for a named team.
get_team_strength_rating(sport, team) ==
    IF team \in {"", NoneStr} THEN Half ELSE <<3, 2>>

\* PlayerAnalyzer defines no get_team_strength method: the call inside the
\* try block raises AttributeError for every team and the except branch
\* returns 0.5.
get_team_strength(sport, team) == Half

strength_delta(sport, home_team, away_team) ==
    RSub(get_team_strength(sport, home_team),
         get_team_strength(sport, away_team))

----------------------------------------------------------------------------
(* services/probabilities.py                                               *)

\* math.exp, modelled by the degree-3 Taylor polynomial on x >= 0 and by
\* exp(x) = 1/exp(-x) on x < 0 (exact at 0, positive, increasing).
ExpPoly(x) ==
    RAdd(RAdd(One, x),
         RAdd(RDiv(RMul(x, x), R(2)), RDiv(RMul(x, RMul(x, x)), R(6))))

exp(x) == IF RLess(x, Zero) THEN RDiv(One, ExpPoly(RNeg(x))) ELSE ExpPoly(x)

\* Normal CDF in thousandths at z = 0, 1/2, 1, 3/2, 2, 5/2, 3.
PhiTable == <<500, 691, 841, 933, 977, 994, 999>>

\* The table interpolated at t half-units (t = 2z >= 0).
PhiAt(t) ==
    LET k == t[1] \div t[2]
    IN  IF k >= Len(PhiTable) - 1
        THEN Rat(PhiTable[Len(PhiTable)], 1000)
        ELSE RAdd(Rat(PhiTable[k + 1], 1000),
                  RMul(Rat(PhiTable[k + 2] - PhiTable[k + 1], 1000),
                       RSub(t, R(k))))

PhiInterp(z) == PhiAt(RMul(R(2), z))

\* In double precision erf(x / sqrt(2)) rounds to exactly 1.0 from
\* x = 8.2441 on, so cdf is exactly 1.0 there (and exactly 0.0 at -x).
CdfSaturation == <<33, 4>>

\* cdf(x) = 0.5 * (1 + erf(x / sqrt(2))), modelled by linear interpolation
\* of the table above; odd symmetry of erf gives cdf(-x) = 1 - cdf(x).
cdf(x) ==
    IF RLeq(CdfSaturation, RAbs(x))
    THEN (IF RLess(x, Zero) THEN Zero ELSE One)
    ELSE IF RLess(x, Zero) THEN RSub(One, PhiInterp(RNeg(x)))
    ELSE PhiInterp(x)

\* The away side given the home side's probability instead of its complement.
HomeAwaySame(p_home) == [home |-> p_home, away |-> p_home]

\* return {'home': p_home, 'away': 1.0 - p_home}
HomeAway(p_home) == [home |-> p_home, away |-> RSub(One, p_home)]

\* prior_home = 1 / (1 + exp(-slope * strength_delta)), strength_delta being
\* the difference of the team strengths less 0.5
PriorHome(home_team, away_team, sport) ==
    RDiv(One,
         RAdd(One,
              exp(RMul(RNeg(DictGet(ML_STRENGTH_SLOPE, sport, R(2))),
                       RSub(strength_delta(sport, home_team, away_team),
                            Half)))))

\* p_home = w * fair_home + (1 - w) * prior_home
Blend(w, fair_home, prior_home) ==
    RAdd(RMul(w, fair_home), RMul(RSub(One, w), prior_home))

\* The blend with the two weights exchanged: 1 - w on the market, w on the
\* prior.
MlBlendSwapped(home_team, away_team, sport, home_ml, away_ml) ==
    HomeAway(Blend(RSub(One, DictGet(ML_MARKET_WEIGHT, sport, <<9, 10>>)),
                   remove_vig_two_way(implied_prob(home_ml),
                                      implied_prob(away_ml))[1],
                   PriorHome(home_team, away_team, sport)))

\* The blend computed once both prices are known.
MlBlend(home_team, away_team, sport, home_ml, away_ml) ==
    HomeAway(Blend(DictGet(ML_MARKET_WEIGHT, sport, <<9, 10>>),
                   remove_vig_two_way(implied_prob(home_ml),
                                      implied_prob(away_ml))[1],
                   PriorHome(home_team, away_team, sport)))

\* ml_probability guessing an even split when only one price is missing.
ml_probability_guess(home_team, away_team, sport, home_ml, away_ml) ==
    IF home_ml = None /\ away_ml = None
    THEN [home |-> None, away |-> None]
    ELSE IF home_ml = None \/ away_ml = None
    THEN [home |-> Half, away |-> Half]
    ELSE MlBlend(home_team, away_team, sport, home_ml, away_ml)

ml_probability(home_team, away_team, sport, home_ml, away_ml) ==
    IF home_ml = None \/ away_ml = None
    THEN [home |-> None, away |-> None]
    ELSE MlBlend(home_team, away_team, sport, home_ml, away_ml)

\* spread_cover_probability with z = spread_home / sigma (the sign of the
\* line not reversed).
spread_cover_probability_unsigned(spread_home, sport) ==
    IF spread_home = None
    THEN [home |-> None, away |-> None]
    ELSE HomeAway(RSub(One,
                       cdf(RDiv(spread_home,
                                DictGet(SPREAD_SIGMA, sport, R(12))))))

spread_cover_probability(spread_home, sport) ==
    IF spread_home = None
    THEN [home |-> None, away |-> None]
    ELSE
        \* z = (0 - spread_home) / sigma; p_home = 1 - cdf(z)
        HomeAway(RSub(One,
                      cdf(RDiv(RSub(Zero, spread_home),
                               DictGet(SPREAD_SIGMA, sport, R(12))))))

\* The 50/50 split returned without looking at the line.
total_over_under_probability_always(total_line, sport) ==
    [over |-> Half, under |-> Half]

total_over_under_probability(total_line, sport) ==
    IF total_line = None
    THEN [over |-> None, under |-> None]
    ELSE [over |-> Half, under |-> Half]

----------------------------------------------------------------------------
(* providers/odds_client.py: best-price selectors.                         *)
(* A bookmaker is [title, key, markets]; a market is [key, outcomes]; an   *)
(* outcome is [name, price, point].                                        *)

\* str.lower().strip() on the competitor names that occur in the model.
NormalizeTable ==
    ("Royals" :> "royals") @@ ("Twins" :> "twins") @@
    ("ROYALS " :> "royals") @@ (" twins" :> "twins")

_normalize(name) ==
    IF name = NoneStr THEN "" ELSE DictGet(NormalizeTable, name, name)

\* name.lower() (best_total_prices does not strip)
LowerTable ==
    ("Over" :> "over") @@ ("Under" :> "under") @@
    ("Royals" :> "royals") @@ ("Twins" :> "twins") @@ ("Spread" :> "spread") @@
    ("Parlay" :> "parlay") @@ ("MLB" :> "mlb")

lower(name) == IF name = NoneStr THEN "" ELSE DictGet(LowerTable, name, name)

\* bm.get('title') or bm.get('key') or ''
BookTitle(bm) ==
    IF bm.title \notin {NoneStr, ""} THEN bm.title
    ELSE IF bm.key \notin {NoneStr, ""} THEN bm.key
    ELSE ""

\* The outcomes of the markets named key, in iteration order (bookmaker,
\* then market, then outcome), each tagged with its bookmaker's title.
MarketQuotes(bm, key) ==
    LET ms == bm.markets
        F[i \in 0..Len(ms)] ==
            IF i = 0 THEN <<>>
            ELSE IF ms[i].key # key THEN F[i - 1]
            ELSE F[i - 1] \o
                 [j \in 1..Len(ms[i].outcomes) |->
                    [title |-> BookTitle(bm),
                     name |-> ms[i].outcomes[j].name,
                     price |-> ms[i].outcomes[j].price,
                     point |-> ms[i].outcomes[j].point]]
    IN  F[Len(ms)]

Quotes(bookmakers, key) ==
    LET F[i \in 0..Len(bookmakers)] ==
            IF i = 0 THEN <<>>
            ELSE F[i - 1] \o MarketQuotes(bookmakers[i], key)
    IN  F[Len(bookmakers)]

\* The comparison made on the raw American numbers.
BetterPriceRaw(best, price) == best = None \/ RLess(best[1], price)

\* best is None or american_to_decimal(best[0]) < american_to_decimal(price)
BetterPrice(best, price) ==
    best = None \/ RLess(american_to_decimal(best[1]), american_to_decimal(price))

\* One pass of the loop body of best_moneyline_prices over outcome q, b
\* being the best quotes so far.
MoneylineStep(b, q, home_team, away_team) ==
    IF q.price = None THEN b
    ELSE IF _normalize(q.name) = _normalize(home_team)
    THEN (IF BetterPrice(b.home, q.price)
          THEN [b EXCEPT !.home = <<q.price, q.title>>]
          ELSE b)
    ELSE IF _normalize(q.name) = _normalize(away_team)
    THEN (IF BetterPrice(b.away, q.price)
          THEN [b EXCEPT !.away = <<q.price, q.title>>]
          ELSE b)
    ELSE b

\* The loop of best_moneyline_prices over the outcomes qs.
MoneylineFold(qs, home_team, away_team) ==
    LET F[i \in 0..Len(qs)] ==
            IF i = 0 THEN [home |-> None, away |-> None]
            ELSE MoneylineStep(F[i - 1], qs[i], home_team, away_team)
    IN  F[Len(qs)]

\* The bookmaker with the outcomes of every market renamed by position: the
\* first is the home side, every other one the away side.
ByPosition(bm, home_team, away_team) ==
    [bm EXCEPT !.markets =
        [i \in 1..Len(bm.markets) |->
            [bm.markets[i] EXCEPT !.outcomes =
                [j \in 1..Len(bm.markets[i].outcomes) |->
                    [bm.markets[i].outcomes[j] EXCEPT
                        !.name = IF j = 1 THEN home_team ELSE away_team]]]]]

\* best_moneyline_prices reading the sides by position in the market.
best_moneyline_prices_by_position(bookmakers, home_team, away_team) ==
    MoneylineFold(Quotes([i \in 1..Len(bookmakers) |->
                            ByPosition(bookmakers[i], home_team, away_team)],
                         "h2h"),
                  home_team, away_team)

best_moneyline_prices(bookmakers, home_team, away_team) ==
    MoneylineFold(Quotes(bookmakers, "h2h"), home_team, away_team)

\* A line match that accepts every point.
isclose_any(a, b) == RLeq(Zero, RAbs(RSub(a, b)))

\* abs(float(a) - float(b)) < 1e-6
isclose(a, b) == RLess(RAbs(RSub(a, b)), <<1, 1000000>>)

\* best_spread_prices and best_total_prices call american_to_decimal, a name
\* the module never imports (only best_moneyline_prices imports it, locally):
\* the comparison "best is None or american_to_decimal(...) < ..." raises
\* NameError as soon as a side already has a best quote.  The value is
\* [raised |-> TRUE] for a raised call.
SelectStep(b, side, q) ==
    IF b.raised THEN b
    ELSE IF b[side] = None THEN [b EXCEPT ![side] = <<q.price, q.title>>]
    ELSE [b EXCEPT !.raised = TRUE]

\* One of the two "if name == ... and line is not None and isclose(...)"
\* statements of best_spread_prices.
SideStep(b, side, q, team, line) ==
    IF /\ _normalize(q.name) = _normalize(team)
       /\ line # None
       /\ isclose(q.point, line)
    THEN SelectStep(b, side, q)
    ELSE b

\* One pass of the loop body of best_spread_prices over outcome q: the home
\* statement, then the away statement.
SpreadStep(b, q, home_team, away_team, home_line, away_line) ==
    IF b.raised \/ q.price = None \/ q.point = None THEN b
    ELSE SideStep(SideStep(b, "home", q, home_team, home_line),
                  "away", q, away_team, away_line)

\* The loop of best_spread_prices over the outcomes qs.
SpreadFold(qs, home_team, away_team, home_line, away_line) ==
    LET F[i \in 0..Len(qs)] ==
            IF i = 0 THEN [home |-> None, away |-> None, raised |-> FALSE]
            ELSE SpreadStep(F[i - 1], qs[i], home_team, away_team,
                            home_line, away_line)
    IN  F[Len(qs)]

best_spread_prices(bookmakers, home_team, away_team, home_line, away_line) ==
    SpreadFold(Quotes(bookmakers, "spreads"), home_team, away_team,
               home_line, away_line)

\* One pass of the loop body of best_total_prices over outcome q.
TotalStep(b, q, point) ==
    IF b.raised \/ q.point = None \/ q.price = None THEN b
    ELSE IF ~isclose(q.point, point) THEN b
    ELSE IF lower(q.name) = "over" THEN SelectStep(b, "over", q)
    ELSE IF lower(q.name) = "under" THEN SelectStep(b, "under", q)
    ELSE b

\* The loop of best_total_prices over the outcomes qs.
TotalFold(qs, point) ==
    LET F[i \in 0..Len(qs)] ==
            IF i = 0 THEN [over |-> None, under |-> None, raised |-> FALSE]
            ELSE TotalStep(F[i - 1], qs[i], point)
    IN  F[Len(qs)]

best_total_prices(bookmakers, point) ==
    IF point = None THEN [over |-> None, under |-> None, raised |-> FALSE]
    ELSE TotalFold(Quotes(bookmakers, "totals"), point)

----------------------------------------------------------------------------
(* app.py: api_picks_suggest.                                              *)
(* A game row is [sport, home_team, away_team, home_moneyline,             *)
(* away_moneyline, spread, total, bookmaker].                              *)

\* g.sport or sport
SportOf(game, sport) == IF game.sport \notin {NoneStr, ""} THEN game.sport ELSE sport

\* Game.query.get(...) for a game_id with no row (or no game_id): None.
NoGame == [sport |-> NoneStr]

DefaultPrice == R(-110)

NoBest == [home |-> None, away |-> None, raised |-> FALSE]

NoBestTotal == [over |-> None, under |-> None, raised |-> FALSE]

\* The try block: best moneylines, then best spread and total prices at the
\* posted points; any exception leaves best_sp = best_tot = {} but keeps the
\* moneylines already taken from the feed.
TryResult(game, best, sp, tot) ==
    [home_ml |-> IF best.home # None THEN best.home[1] ELSE game.home_moneyline,
     away_ml |-> IF best.away # None THEN best.away[1] ELSE game.away_moneyline,
     source_home |-> IF best.home # None THEN best.home[2] ELSE NoneStr,
     source_away |-> IF best.away # None THEN best.away[2] ELSE NoneStr,
     best_sp |-> IF sp.raised \/ tot.raised THEN NoBest ELSE sp,
     best_tot |-> IF sp.raised \/ tot.raised THEN NoBestTotal ELSE tot,
     failed |-> sp.raised \/ tot.raised]

SuggestLookup(game, feed) ==
    TryResult(game,
              IF feed # <<>>
              THEN best_moneyline_prices(feed, game.home_team, game.away_team)
              ELSE [home |-> None, away |-> None],
              IF feed # <<>> /\ game.spread # None
              THEN best_spread_prices(feed, game.home_team, game.away_team,
                                      game.spread, RNeg(game.spread))
              ELSE NoBest,
              IF feed # <<>> /\ game.total # None
              THEN best_total_prices(feed, game.total)
              ELSE NoBestTotal)

\* One candidates.append({...}): implied probability, edge, EV and Kelly of
\* model probability p at the price.
CandidateRow(type, team, opponent, line, price, p, source_book, imp, ev) ==
    [type |-> type, team |-> team, opponent |-> opponent, line |-> line,
     price |-> price, p_model |-> p, implied_prob |-> imp,
     edge |-> IF p # None /\ imp # None THEN RSub(p, imp) ELSE None,
     ev |-> ev,
     ev_per_100 |-> IF ev # None THEN RMul(ev, R(100)) ELSE None,
     kelly |-> IF p # None THEN kelly_fraction(p, price, KellyK, KellyCap)
               ELSE None,
     source_book |-> source_book]

Candidate(type, team, opponent, line, price, p, source_book) ==
    CandidateRow(type, team, opponent, line, price, p, source_book,
                 implied_prob(price),
                 IF p # None THEN ev_from_prob_and_odds(p, price) ELSE None)

\* Price and book of a spread or total side: the selector's quote, else the
\* default price -110 attributed to the game's stored bookmaker.
SidePrice(side_best) == IF side_best # None THEN side_best[1] ELSE DefaultPrice

SideBook(side_best, game) == IF side_best # None THEN side_best[2] ELSE game.bookmaker

MoneylineRows(game, lk, probs) ==
    (IF lk.away_ml # None
     THEN <<Candidate("moneyline", game.away_team, game.home_team, None,
                      lk.away_ml, probs.away, lk.source_away)>>
     ELSE <<>>)
    \o
    (IF lk.home_ml # None
     THEN <<Candidate("moneyline", game.home_team, game.away_team, None,
                      lk.home_ml, probs.home, lk.source_home)>>
     ELSE <<>>)

MoneylineCandidates(game, sport, lk) ==
    MoneylineRows(game, lk,
                  ml_probability(game.home_team, game.away_team,
                                 SportOf(game, sport), lk.home_ml, lk.away_ml))

SpreadRows(game, lk, probs) ==
    <<Candidate("spread", game.home_team, game.away_team, game.spread,
                SidePrice(lk.best_sp.home), probs.home,
                SideBook(lk.best_sp.home, game)),
      Candidate("spread", game.away_team, game.home_team,
                RNeg(game.spread), SidePrice(lk.best_sp.away),
                probs.away, SideBook(lk.best_sp.away, game))>>

SpreadCandidates(game, sport, lk) ==
    IF game.spread = None THEN <<>>
    ELSE SpreadRows(game, lk,
                    spread_cover_probability(game.spread, SportOf(game, sport)))

TotalCandidates(game, sport, lk) ==
    IF game.total = None THEN <<>>
    ELSE
        LET probs == total_over_under_probability(game.total, SportOf(game, sport))
        IN  <<Candidate("total_over", NoneStr, NoneStr, game.total,
                        SidePrice(lk.best_tot.over), probs.over,
                        SideBook(lk.best_tot.over, game)),
              Candidate("total_under", NoneStr, NoneStr, game.total,
                        SidePrice(lk.best_tot.under), probs.under,
                        SideBook(lk.best_tot.under, game))>>

\* The candidates list built from the lookup lk of the try block.
Candidates(game, sport, lk) ==
    MoneylineCandidates(game, sport, lk)
    \o SpreadCandidates(game, sport, lk)
    \o TotalCandidates(game, sport, lk)

edge_key(c) == IF c.edge # None THEN c.edge ELSE NegInf

ev_key(c) == IF c.ev # None THEN c.ev ELSE NegInf

\* The key function of a sort over the entries of s.
EdgeKeys(s) == [c \in {s[i] : i \in DOMAIN s} |-> edge_key(c)]

EvKeys(s) == [c \in {s[i] : i \in DOMAIN s} |-> ev_key(c)]

\* sorted(s, key=key, reverse=True): stable, so entries with equal keys keep
\* their order in s.
sorted_reverse(s, key) ==
    LET Insert(t, x) ==
            LET below == {i \in 1..Len(t) : RLess(key[t[i]], key[x])}
                pos == IF below = {} THEN Len(t) + 1
                       ELSE CHOOSE i \in below : \A j \in below : i <= j
            IN  SubSeq(t, 1, pos - 1) \o <<x>> \o SubSeq(t, pos, Len(t))
        F[i \in 0..Len(s)] == IF i = 0 THEN <<>> ELSE Insert(F[i - 1], s[i])
    IN  F[Len(s)]

\* s[:2]
FirstTwo(s) == SubSeq(s, 1, IF Len(s) < 2 THEN Len(s) ELSE 2)

IsPositive(c) == c.edge # None /\ RLess(Zero, c.edge)

\* Top with the fallback ordered by edge instead of EV.
TopFallbackByEdge(candidates) ==
    LET positives == SelectSeq(candidates, IsPositive)
    IN  IF positives # <<>>
        THEN FirstTwo(sorted_reverse(positives, EdgeKeys(positives)))
        ELSE FirstTwo(sorted_reverse(candidates, EdgeKeys(candidates)))

\* Top taken from all candidates as soon as one edge is positive.
TopOfAll(candidates) ==
    LET positives == SelectSeq(candidates, IsPositive)
    IN  IF positives # <<>>
        THEN FirstTwo(sorted_reverse(candidates, EdgeKeys(candidates)))
        ELSE FirstTwo(sorted_reverse(candidates, EvKeys(candidates)))

Top(candidates) ==
    LET positives == SelectSeq(candidates, IsPositive)
    IN  IF positives # <<>>
        THEN FirstTwo(sorted_reverse(positives, EdgeKeys(positives)))
        ELSE FirstTwo(sorted_reverse(candidates, EvKeys(candidates)))

HasEv(c) == c.ev # None

\* Ranked without the filter on a defined EV.
RankedUnfiltered(candidates) == sorted_reverse(candidates, EvKeys(candidates))

Ranked(candidates) ==
    LET defined == SelectSeq(candidates, HasEv)
    IN  sorted_reverse(defined, EvKeys(defined))

\* The handler's state when it returns: its locals (lookup, candidates) and
\* the JSON response out.
Respond(sport, lk, candidates) ==
    [op |-> "api_picks_suggest", sport |-> sport,
     candidates |-> candidates, lookup |-> lk,
     out |-> [success |-> TRUE, picks |-> Top(candidates),
              ranked |-> Ranked(candidates)]]

SuggestFrom(game, sport, lk) == Respond(sport, lk, Candidates(game, sport, lk))

api_picks_suggest(game, sport, feed) ==
    IF game = NoGame
    THEN [op |-> "api_picks_suggest", sport |-> sport,
          candidates |-> <<>>, lookup |-> [failed |-> FALSE],
          out |-> [success |-> TRUE, picks |-> <<>>]]
    ELSE SuggestFrom(game, sport, SuggestLookup(game, feed))

----------------------------------------------------------------------------
(* app.py: api_picks_evaluate.                                             *)
(* A request body is [type, sport, team, price]; the result is the dict    *)
(* under 'result' without its 'reason' text.                               *)

NoResult ==
    [p_model |-> None, implied_prob |-> None, edge |-> None, ev |-> None,
     ev_per_100 |-> None, kelly |-> None]

\* The metrics with the edge taken as implied probability minus p_model.
PickMetricsReversed(p, price) ==
    [p_model |-> p,
     implied_prob |-> implied_prob(price),
     edge |-> RSub(implied_prob(price), p),
     ev |-> ev_from_prob_and_odds(p, price),
     ev_per_100 |-> RMul(ev_from_prob_and_odds(p, price), R(100)),
     kelly |-> kelly_fraction(p, price, KellyK, KellyCap)]

\* The fields set when p_model and price are both present.
PickMetrics(p, price) ==
    [p_model |-> p,
     implied_prob |-> implied_prob(price),
     edge |-> RSub(p, implied_prob(price)),
     ev |-> ev_from_prob_and_odds(p, price),
     ev_per_100 |-> RMul(ev_from_prob_and_odds(p, price), R(100)),
     kelly |-> kelly_fraction(p, price, KellyK, KellyCap)]

\* probs.get('home') if team and g.home_team.lower() == team.lower(), else
\* probs.get('away')
SideOf(game, team) ==
    IF team \notin {NoneStr, ""} /\ lower(game.home_team) = lower(team)
    THEN "home"
    ELSE "away"

\* The moneyline branch once p_model is known: the implied probability is
\* set from the price alone, and the vig-free baseline is added when the
\* game has both moneylines.
MoneylineResult(game, p, price) ==
    (IF p # None /\ price # None THEN PickMetrics(p, price)
     ELSE [NoResult EXCEPT
             !.p_model = p,
             !.implied_prob = IF price # None THEN implied_prob(price)
                              ELSE None])
    @@
    (IF game.home_moneyline # None /\ game.away_moneyline # None
     THEN [vig_free_home |->
             remove_vig_two_way(implied_prob(game.home_moneyline),
                                implied_prob(game.away_moneyline))[1],
           vig_free_away |->
             remove_vig_two_way(implied_prob(game.home_moneyline),
                                implied_prob(game.away_moneyline))[2]]
     ELSE <<>>)

\* The spread and total branches once p_model is known.
SideResult(p, price) ==
    IF p # None /\ price # None THEN PickMetrics(p, price)
    ELSE [NoResult EXCEPT !.p_model = p]

\* sport or g.sport
EvalSport(game, sport) == IF sport # "" THEN sport ELSE game.sport

api_picks_evaluate(game, data) ==
    IF game = NoGame THEN NoResult
    ELSE IF lower(data.type) = "moneyline"
    THEN MoneylineResult(game,
                         ml_probability(game.home_team, game.away_team,
                                        lower(data.sport), game.home_moneyline,
                                        game.away_moneyline)[SideOf(game, data.team)],
                         data.price)
    ELSE IF lower(data.type) = "spread"
    THEN SideResult(spread_cover_probability(
                        game.spread,
                        EvalSport(game, lower(data.sport)))[SideOf(game, data.team)],
                    data.price)
    ELSE IF lower(data.type) = "total"
    \* total_over_under_probability is called and its result dropped:
    \* p_model = 0.5
    THEN SideResult(Half, data.price)
    ELSE NoResult

----------------------------------------------------------------------------
(* Inputs: the game rows the database can hold and the bookmaker lists the *)
(* odds feed can return for the game's event.                              *)

MaxBooks == 2

Out(name, price, point) == [name |-> name, price |-> price, point |-> point]

Mkt(key, outcomes) == [key |-> key, outcomes |-> outcomes]

BookA ==
    [title |-> "BookA", key |-> "booka",
     markets |->
       <<Mkt("spreads", <<Out("Royals", R(205), <<-3, 2>>),
                          Out("Twins", R(-250), <<3, 2>>)>>),
         Mkt("totals", <<Out("Over", R(-105), <<17, 2>>),
                         Out("Under", R(-115), <<17, 2>>)>>)>>]

BookB ==
    [title |-> "BookB", key |-> "bookb",
     markets |->
       <<Mkt("spreads", <<Out("Royals", R(135), <<-3, 2>>)>>),
         Mkt("h2h", <<Out(" twins", R(50), None), Out("ROYALS ", R(-150), None)>>)>>]

BookC ==
    [title |-> NoneStr, key |-> "bookc",
     markets |->
       <<Mkt("h2h", <<Out("Royals", R(-140), None), Out("Twins", R(120), None)>>),
         Mkt("spreads", <<Out("Twins", R(-900), R(30))>>),
         Mkt("totals", <<Out("Over", R(150), <<17, 2>>)>>)>>]

BookD ==
    [title |-> "BookD", key |-> "bookd",
     markets |->
       <<Mkt("h2h", <<Out("Royals", None, None), Out("Twins", R(-150), None)>>),
         Mkt("spreads", <<Out("Twins", R(-120), <<3000001, 2000000>>),
                          Out("Royals", R(-110), None)>>),
         Mkt("totals", <<Out("Under", R(100), R(9)), Out("Over", None, <<17, 2>>)>>)>>]

BookSet == {BookA, BookB, BookC, BookD}

\* Lists of at most MaxBooks distinct bookmakers.
RECURSIVE BookLists(_)
BookLists(n) ==
    IF n = 0 THEN {<<>>}
    ELSE LET shorter == BookLists(n - 1)
         IN  shorter \cup
             {Append(s, b) : s \in {t \in shorter : Len(t) = n - 1},
                             b \in BookSet}

Distinct(s) == \A i, j \in 1..Len(s) : i # j => s[i] # s[j]

Feeds == {s \in BookLists(MaxBooks) : Distinct(s)}

Games ==
    [sport : {"mlb", ""},
     home_team : {"Royals"},
     away_team : {"Twins"},
     home_moneyline : {None, R(-150)},
     away_moneyline : {None, R(130)},
     spread : {None, R(-30), <<-3, 2>>},
     total : {None, <<17, 2>>},
     bookmaker : {"DBBook"}]

ReqSports == {"", "nfl"}

----------------------------------------------------------------------------
(* Specification of the suggest handler: the row and the feed are fixed by *)
(* Init, each step serves one GET /api/picks/suggest.                      *)

Init ==
    /\ g \in Games \cup {NoGame}
    /\ bms \in Feeds
    /\ ret = [op |-> "none"]
    /\ db = <<>>
    /\ reqs = <<>>

ApiPicksSuggest ==
    /\ \E sport \in ReqSports : ret' = api_picks_suggest(g, sport, bms)
    /\ UNCHANGED <<g, bms, db, reqs>>

Next == ApiPicksSuggest

Spec == Init /\ [][Next]_vars

----------------------------------------------------------------------------
(* Specification of the best-price selectors: the feed is fixed by         *)
(* InitSelect, each step is one call on it.                                *)

TeamArgs == {<<"Royals", "Twins">>, <<"Twins", "ROYALS ">>}

LineArgs == {None, <<-3, 2>>, <<3, 2>>, R(-30), R(30)}

PointArgs == {None, <<17, 2>>, R(9), R(8)}

InitSelect ==
    /\ g = NoGame
    /\ bms \in Feeds
    /\ ret = [op |-> "none"]
    /\ db = <<>>
    /\ reqs = <<>>

BestMoneylinePrices ==
    /\ \E teams \in TeamArgs :
          ret' = [op |-> "best_moneyline_prices",
                  home_team |-> teams[1], away_team |-> teams[2],
                  out |-> best_moneyline_prices(bms, teams[1], teams[2])]
    /\ UNCHANGED <<g, bms, db, reqs>>

BestSpreadPrices ==
    /\ \E teams \in TeamArgs, home_line \in LineArgs, away_line \in LineArgs :
          ret' = [op |-> "best_spread_prices",
                  home_team |-> teams[1], away_team |-> teams[2],
                  home_line |-> home_line, away_line |-> away_line,
                  out |-> best_spread_prices(bms, teams[1], teams[2],
                                             home_line, away_line)]
    /\ UNCHANGED <<g, bms, db, reqs>>

BestTotalPrices ==
    /\ \E point \in PointArgs :
          ret' = [op |-> "best_total_prices", point |-> point,
                  out |-> best_total_prices(bms, point)]
    /\ UNCHANGED <<g, bms, db, reqs>>

NextSelect == BestMoneylinePrices \/ BestSpreadPrices \/ BestTotalPrices

SpecSelect == InitSelect /\ [][NextSelect]_vars

----------------------------------------------------------------------------
(* Specification of the probability estimators: each step is one call.     *)

Sports == {"nfl", "nba", "mlb", "nhl", "cfb", "soccer", "golf", "curling", ""}

PriceArgs == {None, R(-150), R(-110), R(100), R(130)}

InitProb ==
    /\ g = NoGame
    /\ bms = <<>>
    /\ ret = [op |-> "none"]
    /\ db = <<>>
    /\ reqs = <<>>

MlProbability ==
    /\ \E teams \in TeamArgs, sport \in Sports,
          home_ml \in PriceArgs, away_ml \in PriceArgs :
          ret' = [op |-> "ml_probability",
                  home_team |-> teams[1], away_team |-> teams[2],
                  sport |-> sport, home_ml |-> home_ml, away_ml |-> away_ml,
                  out |-> ml_probability(teams[1], teams[2], sport,
                                         home_ml, away_ml)]
    /\ UNCHANGED <<g, bms, db, reqs>>

\* Posted spreads handed to spread_cover_probability.
CoverArgs == LineArgs \cup {Zero, R(7), R(-7)}

SpreadCoverProbability ==
    /\ \E spread_home \in CoverArgs, sport \in Sports :
          ret' = [op |-> "spread_cover_probability",
                  spread_home |-> spread_home, sport |-> sport,
                  out |-> spread_cover_probability(spread_home, sport)]
    /\ UNCHANGED <<g, bms, db, reqs>>

TotalOverUnderProbability ==
    /\ \E total_line \in PointArgs, sport \in Sports :
          ret' = [op |-> "total_over_under_probability",
                  total_line |-> total_line, sport |-> sport,
                  out |-> total_over_under_probability(total_line, sport)]
    /\ UNCHANGED <<g, bms, db, reqs>>

GetTeamStrength ==
    /\ \E sport \in Sports, team \in {"Royals", "Twins", "", NoneStr} :
          ret' = [op |-> "get_team_strength", sport |-> sport, team |-> team,
                  out |-> get_team_strength(sport, team)]
    /\ UNCHANGED <<g, bms, db, reqs>>

StrengthDelta ==
    /\ \E sport \in Sports, home_team \in {"Royals", "Twins", "", NoneStr},
          away_team \in {"Royals", "Twins", "", NoneStr} :
          ret' = [op |-> "strength_delta", sport |-> sport,
                  home_team |-> home_team, away_team |-> away_team,
                  out |-> strength_delta(sport, home_team, away_team)]
    /\ UNCHANGED <<g, bms, db, reqs>>

NextProb ==
    \/ MlProbability
    \/ SpreadCoverProbability
    \/ TotalOverUnderProbability
    \/ GetTeamStrength
    \/ StrengthDelta

SpecProb == InitProb /\ [][NextProb]_vars

----------------------------------------------------------------------------
(* Specification of the evaluate handler: the row is fixed by Init, each   *)
(* step serves one POST /api/picks/evaluate.                               *)

EvalRequests ==
    [type : {"moneyline", "Spread", "total", ""},
     sport : ReqSports,
     team : {NoneStr, "royals", "Twins"},
     price : {None, R(-110)}]

InitEvaluate ==
    /\ g \in Games \cup {NoGame}
    /\ bms = <<>>
    /\ ret = [op |-> "none"]
    /\ db = <<>>
    /\ reqs = <<>>

ApiPicksEvaluate ==
    /\ \E data \in EvalRequests :
          ret' = [op |-> "api_picks_evaluate", data |-> data,
                  out |-> api_picks_evaluate(g, data)]
    /\ UNCHANGED <<g, bms, db, reqs>>

SpecEvaluate == InitEvaluate /\ [][ApiPicksEvaluate]_vars

----------------------------------------------------------------------------
(* Specification of the pricing functions: each step is one call with      *)
(* arguments drawn from the sets below.                                    *)

ProbArgs == {Zero, <<1, 4>>, Half, <<11, 20>>, One}

OddsArgs == {R(-150), R(-110), Zero, R(100), R(130)}

FactorArgs == {Zero, KellyK, KellyCap, One}

VigArgs == {<<-1, 2>>, Zero, <<1, 4>>, Half, <<10, 19>>}

InitPricing ==
    /\ g = NoGame
    /\ bms = <<>>
    /\ ret = [op |-> "none"]
    /\ db = <<>>
    /\ reqs = <<>>

ImpliedProb ==
    /\ \E odds \in OddsArgs :
          ret' = [op |-> "implied_prob", odds |-> odds,
                  out |-> implied_prob(odds)]
    /\ UNCHANGED <<g, bms, db, reqs>>

RemoveVigTwoWay ==
    /\ \E p1 \in VigArgs, p2 \in VigArgs :
          ret' = [op |-> "remove_vig_two_way", p1 |-> p1, p2 |-> p2,
                  out |-> remove_vig_two_way(p1, p2)]
    /\ UNCHANGED <<g, bms, db, reqs>>

KellyFraction ==
    /\ \E p \in ProbArgs, odds \in OddsArgs,
          k \in FactorArgs, cap \in FactorArgs :
          ret' = [op |-> "kelly_fraction", p |-> p, odds |-> odds,
                  k |-> k, cap |-> cap,
                  out |-> kelly_fraction(p, odds, k, cap)]
    /\ UNCHANGED <<g, bms, db, reqs>>

EvFromProbAndOdds ==
    /\ \E p \in ProbArgs, odds \in OddsArgs :
          ret' = [op |-> "ev_from_prob_and_odds", p |-> p, odds |-> odds,
                  out |-> ev_from_prob_and_odds(p, odds)]
    /\ UNCHANGED <<g, bms, db, reqs>>

NextPricing ==
    \/ ImpliedProb
    \/ RemoveVigTwoWay
    \/ KellyFraction
    \/ EvFromProbAndOdds

SpecPricing == InitPricing /\ [][NextPricing]_vars

----------------------------------------------------------------------------
(* Specification of the engine as a whole: one feed snapshot, each step    *)
(* one call of a selector, an estimator or a pricing function, in any      *)
(* order.                                                                  *)

InitEngine ==
    /\ g = NoGame
    /\ bms = <<BookC, BookA>>
    /\ ret = [op |-> "none"]
    /\ db = <<>>
    /\ reqs = <<>>

NextEngine == NextSelect \/ NextProb \/ NextPricing

SpecEngine == InitEngine /\ [][NextEngine]_vars

----------------------------------------------------------------------------
(* app.py: saved bets (api_save_bet, api_delete_bet).  db.parlays is the   *)
(* parlay table as a sequence, the index being the row id, of [name,       *)
(* status, user_id]; db.bets is the set of saved_bet rows [id, parlay_id]; *)
(* the other columns of a saved bet (sport, team, price, the metrics) are  *)
(* not represented.                                                        *)

\* current_user of a request without a session: is_authenticated is False.
Anonymous == "anonymous"

Users == {"u1", "u2"}

\* (data.get('parlay_name') or '').strip() on the setup names that occur in
\* the model.
strip(name) ==
    IF name \in {NoneStr, " "} THEN ""
    ELSE IF name = "P6 " THEN "P6"
    ELSE name

\* The setup a request is filed under: the stripped parlay_name when
\* (data.get('group_type') or 'single').lower() is 'parlay', 'Singles' for
\* every other group type.
SetupName(data) ==
    IF data.group_type \notin {NoneStr, ""} /\ lower(data.group_type) = "parlay"
    THEN strip(data.parlay_name)
    ELSE "Singles"

\* Parlay.query.filter_by(status='active', user_id=current_user.id).all()
ActiveParlays(d, user) ==
    {i \in 1..Len(d.parlays) :
        d.parlays[i].status = "active" /\ d.parlays[i].user_id = user}

\* Parlay.query.filter_by(name=..., status='active', user_id=...).first():
\* the row ids it can return, 0 (no row id) alone when no row matches.
FoundParlays(d, user, name) ==
    IF \A i \in ActiveParlays(d, user) : d.parlays[i].name # name THEN {0}
    ELSE {i \in ActiveParlays(d, user) : d.parlays[i].name = name}

\* The status api_save_bet returns before it writes anything, 0 when it
\* returns none and goes on to write.
SaveStatus(user, data, d) ==
    IF user = Anonymous THEN 401
    ELSE IF data.type \in {NoneStr, ""} THEN 400
    ELSE IF SetupName(data) = "" THEN 400
    ELSE IF /\ FoundParlays(d, user, SetupName(data)) = {0}
            /\ Cardinality(ActiveParlays(d, user)) >= 5
    THEN 400
    ELSE 0

\* The id of a row added to the saved_bet table.
NewBetId(d) ==
    IF d.bets = {} THEN 1
    ELSE 1 + (CHOOSE n \in {b.id : b \in d.bets} : \A b \in d.bets : b.id <= n)

\* db.session.add(saved); db.session.commit() for a bet of parlay pid
AddBet(d, pid) ==
    [d EXCEPT !.bets = @ \cup {[id |-> NewBetId(d), parlay_id |-> pid]}]

\* The writes of a request r that has passed the checks: the new parlay
\* Parlay(name=..., user_id=...) if none was found, then the bet, then the
\* commit.
SaveWrite(d, r) ==
    IF r.parlay = 0
    THEN AddBet([d EXCEPT !.parlays =
                    Append(@, [name |-> r.name, status |-> "active",
                               user_id |-> r.user])],
                Len(d.parlays) + 1)
    ELSE AddBet(d, r.parlay)

\* db.session.delete(bet); commit; then parlay.status = 'completed' if the
\* parlay has no bets left.
DeleteBet(d, bet) ==
    IF \E b \in d.bets : b # bet /\ b.parlay_id = bet.parlay_id
    THEN [d EXCEPT !.bets = @ \ {bet}]
    ELSE [d EXCEPT !.bets = @ \ {bet},
                   !.parlays[bet.parlay_id].status = "completed"]

\* api_delete_bet once the bet row is loaded.
DeleteLoaded(user, bet, d) ==
    IF user # Anonymous /\ d.parlays[bet.parlay_id].user_id # user
    THEN [status |-> 403, db |-> d]
    ELSE [status |-> 200, db |-> DeleteBet(d, bet)]

\* "if not bet_id" holds for a missing id and for 0.
api_delete_bet(user, bet_id, d) ==
    IF bet_id = 0 THEN [status |-> 400, db |-> d]
    ELSE IF \A b \in d.bets : b.id # bet_id THEN [status |-> 404, db |-> d]
    ELSE DeleteLoaded(user, CHOOSE b \in d.bets : b.id = bet_id, d)

----------------------------------------------------------------------------
(* Specification of the saved bets: requests of two users and of an        *)
(* anonymous client on a database where user u1 has four active setups of  *)
(* one bet each.  A delete request is served in one step; a save request   *)
(* takes two, its checks and reads, then its writes, and the requests in   *)
(* flight interleave.                                                      *)

MaxRows == 6

MaxInFlight == 2

SaveRequests ==
    [type : {"", "moneyline"},
     group_type : {NoneStr, "Parlay"},
     parlay_name : {" ", "P6 "}]

InitBets ==
    /\ g = NoGame
    /\ bms = <<>>
    /\ ret = [op |-> "none"]
    /\ db = [parlays |-> [i \in 1..4 |->
                            [name |-> <<"P1", "P2", "P3", "P4">>[i],
                             status |-> "active", user_id |-> "u1"]],
             bets |-> {[id |-> i, parlay_id |-> i] : i \in 1..4}]
    /\ reqs = <<>>

\* api_save_bet up to its last read: a rejected request ends here.
ApiSaveBetRead ==
    /\ Len(reqs) < MaxInFlight
    /\ Len(db.parlays) + Len(reqs) < MaxRows
    /\ NewBetId(db) + Len(reqs) <= MaxRows
    /\ \E user \in Users \cup {Anonymous}, data \in SaveRequests :
          /\ ret' = [op |-> "api_save_bet",
                     status |-> SaveStatus(user, data, db)]
          /\ IF SaveStatus(user, data, db) # 0 THEN reqs' = reqs
             ELSE \E parlay \in FoundParlays(db, user, SetupName(data)) :
                     reqs' = Append(reqs, [user |-> user,
                                           name |-> SetupName(data),
                                           parlay |-> parlay])
    /\ UNCHANGED <<g, bms, db>>

\* The rest of api_save_bet for the request in flight at position i.
ApiSaveBetWrite ==
    /\ \E i \in 1..Len(reqs) :
          /\ db' = SaveWrite(db, reqs[i])
          /\ reqs' = SubSeq(reqs, 1, i - 1) \o SubSeq(reqs, i + 1, Len(reqs))
          /\ ret' = [op |-> "api_save_bet", status |-> 200]
    /\ UNCHANGED <<g, bms>>

ApiDeleteBet ==
    /\ \E user \in Users \cup {Anonymous}, id \in 0..MaxRows :
          /\ ret' = [op |-> "api_delete_bet", user |-> user,
                     status |-> api_delete_bet(user, id, db).status]
          /\ db' = api_delete_bet(user, id, db).db
    /\ UNCHANGED <<g, bms, reqs>>

NextBets == ApiSaveBetRead \/ ApiSaveBetWrite \/ ApiDeleteBet

SpecBets == InitBets /\ [][NextBets]_vars

----------------------------------------------------------------------------

(* Scheduled jobs on the game table: _rollover_game_statuses (app.py) and  *)
(* _update_odds_for_upcoming (sports_collector.py).  db.games is the game  *)
(* table, a sequence of rows with the fields of Games and date (whole      *)
(* hours), status and odds_last_updated.  An odds record is one dict of    *)
(* the list fetch_odds_for_sport returns, tagged with the sport it was     *)
(* fetched for: the dict always carries every key, with None for what the  *)
(* bookmaker does not quote, and home_moneyline and spread are the price   *)
(* and the line of the record's own home_team.                             *)

\* _rollover_game_statuses without the 'live' games in its first query.
RolledStatusUpcomingOnly(game, now) ==
    IF game.status = "upcoming" /\ game.date < now - 6 THEN "completed"
    ELSE IF game.status = "upcoming" /\ game.date <= now /\ game.date >= now - 6
    THEN "live"
    ELSE game.status

\* The status of one row after the two queries of _rollover_game_statuses,
\* past_cutoff being now - 6 hours: first the 'upcoming' and 'live' rows
\* dated before the cutoff become 'completed', then the rows still
\* 'upcoming' and dated from the cutoff to now become 'live'.
RolledStatus(game, now) ==
    IF game.status \in {"upcoming", "live"} /\ game.date < now - 6
    THEN "completed"
    ELSE IF game.status = "upcoming" /\ game.date <= now /\ game.date >= now - 6
    THEN "live"
    ELSE game.status

_rollover_game_statuses(games, now) ==
    [i \in 1..Len(games) |->
        [games[i] EXCEPT !.status = RolledStatus(games[i], now)]]

\* odds_by_key.get((home, away, sport)): the last record fetched under the
\* key, as a list of one record, or the empty list for None.
Lookup(odds, home, away, sport) ==
    IF \A i \in 1..Len(odds) : <<odds[i].home_team, odds[i].away_team,
                                 odds[i].sport>> # <<home, away, sport>>
    THEN <<>>
    ELSE <<odds[CHOOSE i \in 1..Len(odds) :
                  /\ <<odds[i].home_team, odds[i].away_team, odds[i].sport>>
                        = <<home, away, sport>>
                  /\ \A j \in (i + 1)..Len(odds) :
                        <<odds[j].home_team, odds[j].away_team, odds[j].sport>>
                           # <<home, away, sport>>]>>

\* The record matched to the game: by (home, away, sport), else by the
\* reversed key (away, home, sport).
Match(game, odds) ==
    IF Lookup(odds, game.home_team, game.away_team, lower(game.sport)) # <<>>
    THEN Lookup(odds, game.home_team, game.away_team, lower(game.sport))
    ELSE Lookup(odds, game.away_team, game.home_team, lower(game.sport))

\* The assignments made to a game for its match m (a list of one record).
Enriched(game, m) ==
    IF m = <<>> THEN game
    ELSE [game EXCEPT
            !.spread = m[1].spread,
            !.total = m[1].total,
            !.home_moneyline = m[1].home_moneyline,
            !.away_moneyline = m[1].away_moneyline,
            !.bookmaker = m[1].bookmaker,
            !.odds_last_updated =
                IF m[1].last_update # NoneStr THEN m[1].last_update ELSE @]

_update_odds_for_upcoming(games, odds) ==
    [i \in 1..Len(games) |->
        IF games[i].status \in {"upcoming", "live"}
        THEN Enriched(games[i], Match(games[i], odds))
        ELSE games[i]]

----------------------------------------------------------------------------
(* Specification of the scheduled jobs: a table of two games, each step    *)
(* one run of the rollover at some time or one odds refresh on some        *)
(* fetched list.                                                           *)

MaxOdds == 2

\* The Royals game in every status, dated before, at and after the cutoff
\* and the time of the runs.
GameRows ==
    [sport : {"MLB"}, home_team : {"Royals"}, away_team : {"Twins"},
     home_moneyline : {R(-150)}, away_moneyline : {R(130)},
     spread : {None, <<-3, 2>>}, total : {<<17, 2>>},
     bookmaker : {"DBBook"}, odds_last_updated : {"09:00"},
     date : {2, 6, 12, 13}, status : {"upcoming", "live", "completed"}]

\* A game the fetched lists never quote.
OtherGame ==
    [sport |-> "nfl", home_team |-> "Bills", away_team |-> "Jets",
     home_moneyline |-> R(-110), away_moneyline |-> R(-110),
     spread |-> None, total |-> None, bookmaker |-> "DBBook",
     odds_last_updated |-> NoneStr, date |-> 20, status |-> "upcoming"]

\* Events of the Royals and the Twins in either orientation: quoted by
\* BookA with or without a spread market, or by a bookmaker that has no
\* title, no update time and no market at all.
OddsRecords ==
    [sport : {"mlb"},
     home_team : {"Royals", "Twins"}, away_team : {"Royals", "Twins"},
     home_moneyline : {R(-140)}, away_moneyline : {R(120)},
     spread : {None, <<-5, 2>>}, total : {R(9)},
     bookmaker : {"BookA"}, last_update : {"11:00"}]
    \cup
    [sport : {"mlb"},
     home_team : {"Royals", "Twins"}, away_team : {"Royals", "Twins"},
     home_moneyline : {None}, away_moneyline : {None},
     spread : {None}, total : {None},
     bookmaker : {NoneStr}, last_update : {NoneStr}]

\* The lists fetch_odds_for_sport can return: at most MaxOdds events.
RECURSIVE OddsLists(_)
OddsLists(n) ==
    IF n = 0 THEN {<<>>}
    ELSE OddsLists(n - 1) \cup
         {Append(s, o) : s \in {t \in OddsLists(n - 1) : Len(t) = n - 1},
                         o \in {r \in OddsRecords : r.home_team # r.away_team}}

InitJobs ==
    /\ g = NoGame
    /\ bms = <<>>
    /\ ret = [op |-> "none"]
    /\ db \in {[games |-> <<row, OtherGame>>] : row \in GameRows}
    /\ reqs = <<>>

RolloverGameStatuses ==
    /\ \E now \in {12, 13} :
          /\ db' = [db EXCEPT !.games = _rollover_game_statuses(@, now)]
          /\ ret' = [op |-> "_rollover_game_statuses", now |-> now,
                     before |-> db.games]
    /\ UNCHANGED <<g, bms, reqs>>

UpdateOddsForUpcoming ==
    /\ \E odds \in OddsLists(MaxOdds) :
          /\ db' = [db EXCEPT !.games = _update_odds_for_upcoming(@, odds)]
          /\ ret' = [op |-> "_update_odds_for_upcoming", odds |-> odds,
                     before |-> db.games]
    /\ UNCHANGED <<g, bms, reqs>>

NextJobs == RolloverGameStatuses \/ UpdateOddsForUpcoming

SpecJobs == InitJobs /\ [][NextJobs]_vars

----------------------------------------------------------------------------

(* Properties of the pick ranker.                                          *)

Range(s) == {s[i] : i \in DOMAIN s}

Served == ret.op = "api_picks_suggest" /\ g # NoGame

\* An undefined edge or EV ranks below every defined one.
EdgeOf(c) == IF c.edge = None THEN NegInf ELSE c.edge

EvOf(c) == IF c.ev = None THEN NegInf ELSE c.ev

SomePositive(cands) == \E c \in Range(cands) : c.edge # None /\ RLess(Zero, c.edge)

EdgesOf(s) == [i \in 1..Len(s) |-> EdgeOf(s[i])]

EvsOf(s) == [i \in 1..Len(s) |-> EvOf(s[i])]

NonIncreasing(keys) ==
    \A i, j \in 1..Len(keys) : i < j => RLeq(keys[j], keys[i])

Count(s, c) == Cardinality({i \in 1..Len(s) : s[i] = c})

\* C1: top has at most two entries; with a positive-edge candidate it is in
\* non-increasing edge order and starts with a candidate of maximal edge;
\* with none it is in non-increasing EV order and starts with a candidate
\* of maximal EV.
C1_TopOrder ==
    Served =>
        LET top == ret.out.picks
            cands == ret.candidates
        IN  /\ Len(top) <= 2
            /\ Range(top) \subseteq Range(cands)
            /\ cands # <<>> => top # <<>>
            /\ SomePositive(cands) =>
                  /\ NonIncreasing(EdgesOf(top))
                  /\ \A c \in Range(cands) : RLeq(EdgeOf(c), EdgeOf(top[1]))
            /\ (~SomePositive(cands) /\ cands # <<>>) =>
                  /\ NonIncreasing(EvsOf(top))
                  /\ \A c \in Range(cands) : RLeq(EvOf(c), EvOf(top[1]))

\* No candidate has a positive edge, and the first pick (maximal EV) has a
\* lower edge than another candidate: the EV ordering was applied.
C1_Witness ==
    /\ Served
    /\ ~SomePositive(ret.candidates)
    /\ Len(ret.out.picks) = 2
    /\ RLess(EvOf(ret.out.picks[2]), EvOf(ret.out.picks[1]))
    /\ \E c \in Range(ret.candidates) :
          RLess(EdgeOf(ret.out.picks[1]), EdgeOf(c))

\* C2 as stated: with a positive-edge candidate and at least two candidates
\* of defined edge, top is the first two of all candidates by edge.
C2_TopOfAllCandidates ==
    (Served /\ SomePositive(ret.candidates)
        /\ Cardinality({i \in 1..Len(ret.candidates) :
                           ret.candidates[i].edge # None}) >= 2) =>
        LET top == ret.out.picks
            all == sorted_reverse(ret.candidates, [c \in Range(ret.candidates) |-> EdgeOf(c)])
        IN  /\ Len(top) = 2
            /\ \A i \in 1..2 : EdgeOf(top[i]) = EdgeOf(all[i])

\* C2 amended: with a positive-edge candidate, top is the first two of the
\* positive-edge candidates by edge: min(2, number of positives) entries,
\* all of positive edge, in non-increasing edge order, and no positive
\* candidate left out has a greater edge than an entry of top.
C2_TopOfPositives ==
    (Served /\ SomePositive(ret.candidates)) =>
        LET top == ret.out.picks
            pos == SelectSeq(ret.candidates, LAMBDA c : RLess(Zero, EdgeOf(c)))
        IN  /\ Len(top) = (IF Len(pos) < 2 THEN Len(pos) ELSE 2)
            /\ \A c \in Range(top) : RLess(Zero, EdgeOf(c))
            /\ NonIncreasing(EdgesOf(top))
            /\ \A c \in Range(pos) \ Range(top) :
                  \A t \in Range(top) : RLeq(EdgeOf(c), EdgeOf(t))

\* Exactly one candidate of positive edge among several of defined edge:
\* top holds that candidate alone.
C2_Witness ==
    /\ Served
    /\ Cardinality({i \in 1..Len(ret.candidates) :
                       RLess(Zero, EdgeOf(ret.candidates[i]))}) = 1
    /\ Cardinality({i \in 1..Len(ret.candidates) :
                       ret.candidates[i].edge # None}) >= 2
    /\ Len(ret.out.picks) = 1

\* C3: when the edge ordering applies, of two picks with equal edge the one
\* with the higher EV comes first.
C3_TieBrokenByEv ==
    (Served /\ SomePositive(ret.candidates)) =>
        LET top == ret.out.picks
        IN  \A i, j \in 1..Len(top) :
               (i < j /\ EdgeOf(top[i]) = EdgeOf(top[j]))
                   => RLeq(EvOf(top[j]), EvOf(top[i]))

\* C4: ranked holds exactly the candidates with a defined EV, each as often
\* as it was built, in non-increasing EV order.
C4_RankedByEv ==
    Served =>
        LET ranked == ret.out.ranked
            cands == ret.candidates
        IN  /\ \A c \in Range(cands) \cup Range(ranked) :
                  Count(ranked, c) = (IF c.ev # None THEN Count(cands, c) ELSE 0)
            /\ NonIncreasing(EvsOf(ranked))

\* A candidate without EV was built, and ranked reorders the others.
C4_Witness ==
    /\ Served
    /\ \E c \in Range(ret.candidates) : c.ev = None
    /\ Len(ret.out.ranked) >= 2
    /\ ret.out.ranked # SelectSeq(ret.candidates, LAMBDA c : c.ev # None)
    /\ RLess(EvOf(ret.out.ranked[Len(ret.out.ranked)]), EvOf(ret.out.ranked[1]))

\* C5: no entry of top or ranked has p_model, edge or ev equal to None.
C5_NoUndefinedEntry ==
    Served =>
        \A c \in Range(ret.out.picks) \cup Range(ret.out.ranked) :
            c.p_model # None /\ c.edge # None /\ c.ev # None

\* The selector's quote for the side a spread or total candidate is on.
SideQuote(c) ==
    IF c.type = "spread"
    THEN (IF c.team = g.home_team THEN ret.lookup.best_sp.home
          ELSE ret.lookup.best_sp.away)
    ELSE IF c.type = "total_over" THEN ret.lookup.best_tot.over
    ELSE ret.lookup.best_tot.under

\* C6: a spread or total side without a selector quote at the posted line
\* yields no entry of top or ranked.
C6_NoDefaultPrice ==
    Served =>
        \A c \in Range(ret.out.picks) \cup Range(ret.out.ranked) :
            c.type # "moneyline" => SideQuote(c) # None

----------------------------------------------------------------------------
(* Properties of the best-price selectors.                                 *)

\* Every priced outcome the feed carries in the markets named key.
FeedQuotes(key) ==
    {[title |-> BookTitle(bms[b]),
      name |-> bms[b].markets[m].outcomes[o].name,
      price |-> bms[b].markets[m].outcomes[o].price,
      point |-> bms[b].markets[m].outcomes[o].point] :
        <<b, m, o>> \in
          {t \in (1..Len(bms)) \X (1..3) \X (1..2) :
              /\ t[2] <= Len(bms[t[1]].markets)
              /\ bms[t[1]].markets[t[2]].key = key
              /\ t[3] <= Len(bms[t[1]].markets[t[2]].outcomes)
              /\ bms[t[1]].markets[t[2]].outcomes[t[3]].price # None}}

Payout(price) == american_to_decimal(price)

\* best is a highest-payout member of quotes, or None when quotes is empty.
IsBestOf(best, quotes) ==
    IF quotes = {} THEN best = None
    ELSE /\ best # None
         /\ \E q \in quotes : q.price = best[1] /\ q.title = best[2]
         /\ \A q \in quotes : RLeq(Payout(q.price), Payout(best[1]))

MoneylineQuotes(team) ==
    {q \in FeedQuotes("h2h") : _normalize(q.name) = _normalize(team)}

\* C7: each side's result of best_moneyline_prices is a quote offered for
\* that side whose decimal payout no other quote for the side exceeds, and
\* is None only if no bookmaker quotes the side.
C7_BestMoneyline ==
    ret.op = "best_moneyline_prices" =>
        /\ IsBestOf(ret.out.home, MoneylineQuotes(ret.home_team))
        /\ IsBestOf(ret.out.away, MoneylineQuotes(ret.away_team))

\* The best quote of a side has a lower American number than another quote
\* of that side.
C7_Witness ==
    /\ ret.op = "best_moneyline_prices"
    /\ \E side \in {"home", "away"} :
          /\ ret.out[side] # None
          /\ \E q \in MoneylineQuotes(IF side = "home" THEN ret.home_team
                                      ELSE ret.away_team) :
                /\ RLess(ret.out[side][1], q.price)
                /\ RLess(Payout(q.price), Payout(ret.out[side][1]))

AtLine(q, line) ==
    /\ line # None
    /\ q.point # None
    /\ RLess(RAbs(RSub(q.point, line)), <<1, 1000000>>)

SpreadQuotes(team, line) ==
    {q \in FeedQuotes("spreads") :
        _normalize(q.name) = _normalize(team) /\ AtLine(q, line)}

TotalQuotes(side, line) ==
    {q \in FeedQuotes("totals") : lower(q.name) = side /\ AtLine(q, line)}

\* The quotes a side of the last selector call could choose from.
CallQuotes(side) ==
    IF ret.op = "best_spread_prices"
    THEN (IF side = "home" THEN SpreadQuotes(ret.home_team, ret.home_line)
          ELSE SpreadQuotes(ret.away_team, ret.away_line))
    ELSE TotalQuotes(side, ret.point)

CallSides ==
    IF ret.op = "best_spread_prices" THEN {"home", "away"}
    ELSE IF ret.op = "best_total_prices" THEN {"over", "under"}
    ELSE {}

\* C8: when two or more bookmakers quote a side at the requested line, the
\* call completes and returns the highest-payout quote with its book.
C8_BestAtLine ==
    \A side \in CallSides :
        Cardinality(CallQuotes(side)) >= 2 =>
            /\ ~ret.out.raised
            /\ IsBestOf(ret.out[side], CallQuotes(side))

\* C9: a returned quote is one offered for the side at the requested line;
\* a side nobody quotes at the requested line, or whose requested line is
\* None, is returned as None.
C9_ExactLineOnly ==
    \A side \in CallSides :
        ~ret.out.raised =>
            IF CallQuotes(side) = {} THEN ret.out[side] = None
            ELSE /\ ret.out[side] # None
                 /\ \E q \in CallQuotes(side) :
                       q.price = ret.out[side][1] /\ q.title = ret.out[side][2]

\* A side is quoted, but only at other lines than the requested one, and
\* comes back None, while the other side is returned from a point within
\* the tolerance of its line.
C9_Witness ==
    /\ ret.op = "best_spread_prices"
    /\ ~ret.out.raised
    /\ ret.home_line # None
    /\ ret.out.home = None
    /\ \E q \in FeedQuotes("spreads") :
          _normalize(q.name) = _normalize(ret.home_team) /\ q.point # None
    /\ ret.out.away # None
    /\ \E q \in CallQuotes("away") : q.point # ret.away_line

----------------------------------------------------------------------------
(* Properties of the probability estimators.                               *)

\* C10: ml_probability returns None for both sides whenever a price is
\* None, and two values whenever both prices are given.
C10_MlNoneIffPriceMissing ==
    ret.op = "ml_probability" =>
        IF ret.home_ml = None \/ ret.away_ml = None
        THEN ret.out = [home |-> None, away |-> None]
        ELSE ret.out.home # None /\ ret.out.away # None

\* Exactly one of the two prices is missing.
C10_Witness ==
    /\ ret.op = "ml_probability"
    /\ (ret.home_ml = None) # (ret.away_ml = None)
    /\ ret.out = [home |-> None, away |-> None]

----------------------------------------------------------------------------
(* Properties of the probability estimators.                               *)

MlServed == ret.op = "ml_probability"

\* C11: the prior has no offset, so with equal strengths (every team's
\* strength is 0.5) and equal home and away prices, ml_probability gives
\* p_home = p_away = 0.5.
C11_PriorNoOffset ==
    (MlServed /\ ret.home_ml # None /\ ret.home_ml = ret.away_ml) =>
        ret.out = [home |-> Half, away |-> Half]

\* The vig-free market probability of the home side, the logistic prior and
\* the market weight of the call recorded in ret.
FairHomeOf(r) ==
    remove_vig_two_way(implied_prob(r.home_ml), implied_prob(r.away_ml))[1]

PriorOf(r) == PriorHome(r.home_team, r.away_team, r.sport)

WeightOf(r) == DictGet(ML_MARKET_WEIGHT, r.sport, <<9, 10>>)

StrictlyBetween(x, a, b) ==
    \/ RLess(a, x) /\ RLess(x, b)
    \/ RLess(b, x) /\ RLess(x, a)

\* C12: with both prices present, p_home = w * p_home_fair + (1 - w) * prior
\* for the sport's weight (0.9 for a sport absent from the table); p_home
\* lies strictly between p_home_fair and the prior when they differ and
\* equals them when they coincide.
C12_BlendBetween ==
    (MlServed /\ ret.home_ml # None /\ ret.away_ml # None) =>
        /\ ret.out.home =
              RAdd(RMul(WeightOf(ret), FairHomeOf(ret)),
                   RMul(RSub(One, WeightOf(ret)), PriorOf(ret)))
        /\ FairHomeOf(ret) # PriorOf(ret) =>
              StrictlyBetween(ret.out.home, FairHomeOf(ret), PriorOf(ret))
        /\ FairHomeOf(ret) = PriorOf(ret) => ret.out.home = PriorOf(ret)

\* A sport absent from the calibration tables, both prices present, market
\* and prior different, and the result strictly between them.
C12_Witness ==
    /\ MlServed
    /\ ret.sport = "curling"
    /\ ret.home_ml # None /\ ret.away_ml # None
    /\ RLess(PriorOf(ret), ret.out.home)
    /\ RLess(ret.out.home, FairHomeOf(ret))

EstimateServed ==
    ret.op \in {"ml_probability", "spread_cover_probability",
                "total_over_under_probability"}

\* The two sides of an estimate, whatever the market.
SidesOf(out) == {out[k] : k \in DOMAIN out}

IsProbability(x) == x # None /\ RLeq(Zero, x) /\ RLeq(x, One)

\* The sum of the sides of an estimate with both sides defined.
SumOf(out) ==
    IF "home" \in DOMAIN out THEN RAdd(out.home, out.away)
    ELSE RAdd(out.over, out.under)

\* C13: every estimate of ml_probability, spread_cover_probability and
\* total_over_under_probability has two sides that are either both None or
\* both in [0, 1] with sum 1; never exactly one None side.
C13_EstimateWellFormed ==
    EstimateServed =>
        /\ Cardinality(DOMAIN ret.out) = 2
        /\ \/ SidesOf(ret.out) = {None}
           \/ /\ \A x \in SidesOf(ret.out) : IsProbability(x)
              /\ SumOf(ret.out) = One

\* A spread estimate with two different defined sides.
C13_Witness ==
    /\ ret.op = "spread_cover_probability"
    /\ ret.out.home # None
    /\ RLess(ret.out.away, ret.out.home)
    /\ RLess(ret.out.home, One)

SpreadServed == ret.op = "spread_cover_probability"

\* C14: spread_cover_probability gives {home: None, away: None} for line
\* None and exactly 0.5 / 0.5 for line 0 in every sport; the home cover at
\* line L equals the away cover at -L (in exact arithmetic), and the home
\* cover exceeds 0.5 exactly when L > 0.
C14_CoverSymmetry ==
    SpreadServed =>
        /\ ret.spread_home = None => ret.out = [home |-> None, away |-> None]
        /\ ret.spread_home = Zero => ret.out = [home |-> Half, away |-> Half]
        /\ ret.spread_home # None =>
              /\ ret.out.home =
                    spread_cover_probability(RNeg(ret.spread_home),
                                             ret.sport).away
              /\ RLess(Half, ret.out.home) <=> RLess(Zero, ret.spread_home)

\* A positive line short of saturation: home cover strictly between 0.5
\* and 1.
C14_Witness ==
    /\ SpreadServed
    /\ ret.spread_home # None
    /\ RLess(Zero, ret.spread_home)
    /\ RLess(Half, ret.out.home)
    /\ RLess(ret.out.home, One)

TotalServed == ret.op = "total_over_under_probability"

\* C15: total_over_under_probability gives over = under = 0.5 for every
\* present line and every sport, and {over: None, under: None} for line
\* None.
C15_TotalHalf ==
    TotalServed =>
        ret.out = IF ret.total_line = None
                  THEN [over |-> None, under |-> None]
                  ELSE [over |-> Half, under |-> Half]

\* An even split for a present line in a sport without calibration.
C15_Witness ==
    /\ TotalServed
    /\ ret.total_line = R(9)
    /\ ret.sport = "curling"
    /\ ret.out.over = Half

----------------------------------------------------------------------------
(* Properties of the evaluate handler.                                     *)

Evaluated == ret.op = "api_picks_evaluate" /\ g # NoGame

EvalType == lower(ret.data.type)

\* C16: a total pick on an event without a total line reports p_model None,
\* and hence edge, ev, ev_per_100 and kelly None.
C16_TotalWithoutLine ==
    (Evaluated /\ EvalType = "total" /\ g.total = None) =>
        /\ ret.out.p_model = None
        /\ ret.out.edge = None
        /\ ret.out.ev = None
        /\ ret.out.ev_per_100 = None
        /\ ret.out.kelly = None

\* The model probability of the evaluated pick is unavailable: a moneyline
\* price of the event is missing, or its spread line is.
Unavailable ==
    \/ EvalType = "moneyline"
          /\ (g.home_moneyline = None \/ g.away_moneyline = None)
    \/ EvalType = "spread" /\ g.spread = None

\* C17: for a moneyline or spread pick, edge, ev, ev_per_100 and kelly are
\* all None when the model probability is unavailable or no price is
\* supplied; otherwise edge = p_model - implied_prob(price),
\* ev = ev_from_prob_and_odds(p_model, price), ev_per_100 = 100 * ev and
\* kelly = kelly_fraction(p_model, price).  For an event that is not found
\* every numeric field is None.
C17_EvaluateFields ==
    /\ (ret.op = "api_picks_evaluate" /\ g = NoGame) => ret.out = NoResult
    /\ (Evaluated /\ EvalType \in {"moneyline", "spread"}) =>
          /\ Unavailable <=> ret.out.p_model = None
          /\ (Unavailable \/ ret.data.price = None) =>
                /\ ret.out.edge = None
                /\ ret.out.ev = None
                /\ ret.out.ev_per_100 = None
                /\ ret.out.kelly = None
          /\ (~Unavailable /\ ret.data.price # None) =>
                /\ ret.out.edge =
                      RSub(ret.out.p_model, implied_prob(ret.data.price))
                /\ ret.out.ev =
                      ev_from_prob_and_odds(ret.out.p_model, ret.data.price)
                /\ ret.out.ev_per_100 = RMul(R(100), ret.out.ev)
                /\ ret.out.kelly =
                      kelly_fraction(ret.out.p_model, ret.data.price,
                                     KellyK, KellyCap)

\* A spread pick with probability and price: a nonzero edge and a defined
\* EV.
C17_Witness ==
    /\ Evaluated
    /\ EvalType = "spread"
    /\ ret.out.p_model # None
    /\ ret.data.price # None
    /\ ret.out.edge \notin {None, Zero}
    /\ ret.out.ev # None

----------------------------------------------------------------------------
(* Properties of the pricing functions.                                    *)

KellyServed == ret.op = "kelly_fraction"

\* b = decimal odds - 1 of the recorded call.
NetOdds == RSub(american_to_decimal(ret.odds), One)

\* C18: for p in [0, 1], k >= 0 and cap >= 0, kelly_fraction(p, price, k,
\* cap) lies in [0, cap]; it is min(cap, k * max(0, (p * (b + 1) - 1) / b))
\* when b = decimal odds - 1 > 0, and exactly 0 when b <= 0.
C18_KellyRange ==
    KellyServed =>
        /\ RLeq(Zero, ret.out) /\ RLeq(ret.out, ret.cap)
        /\ IF RLess(Zero, NetOdds)
           THEN ret.out =
                   RMin(ret.cap,
                        RMul(ret.k,
                             RMax(Zero,
                                  RDiv(RSub(RMul(ret.p, RAdd(NetOdds, One)),
                                            One),
                                       NetOdds))))
           ELSE ret.out = Zero

\* A stake strictly between 0 and the cap.
C18_Witness ==
    /\ KellyServed
    /\ RLess(Zero, ret.out)
    /\ RLess(ret.out, ret.cap)

ImpliedServed == ret.op = "implied_prob"

\* C19: for nonzero American odds, implied_prob(odds) is strictly between 0
\* and 1; it is 100 / (odds + 100) for odds >= 0 and |odds| / (|odds| + 100)
\* for odds < 0 (the odds of the model are whole numbers).
C19_ImpliedProbRange ==
    (ImpliedServed /\ ret.odds # Zero) =>
        /\ RLess(Zero, ret.out) /\ RLess(ret.out, One)
        /\ ret.odds[2] = 1
        /\ ret.out = IF ret.odds[1] >= 0
                     THEN Rat(100, ret.odds[1] + 100)
                     ELSE Rat(-ret.odds[1], 100 - ret.odds[1])

\* A favourite's price: implied probability above one half.
C19_Witness ==
    /\ ImpliedServed
    /\ RLess(ret.odds, Zero)
    /\ RLess(Half, ret.out)
    /\ RLess(ret.out, One)

VigServed == ret.op = "remove_vig_two_way"

\* C20: remove_vig_two_way(p1, p2) is (p1 / (p1 + p2), p2 / (p1 + p2)) with
\* components summing to 1 when p1 + p2 > 0, hence (0.5, 0.5) for p1 = p2 >
\* 0; it is exactly (0.5, 0.5) when p1 + p2 <= 0.
C20_RemoveVig ==
    VigServed =>
        IF RLess(Zero, RAdd(ret.p1, ret.p2))
        THEN /\ ret.out = <<RDiv(ret.p1, RAdd(ret.p1, ret.p2)),
                            RDiv(ret.p2, RAdd(ret.p1, ret.p2))>>
             /\ RAdd(ret.out[1], ret.out[2]) = One
             /\ ret.p1 = ret.p2 => ret.out = <<Half, Half>>
        ELSE ret.out = <<Half, Half>>

\* Two different implied probabilities with an overround, normalised.
C20_Witness ==
    /\ VigServed
    /\ RLess(One, RAdd(ret.p1, ret.p2))
    /\ RLess(ret.p1, ret.p2)
    /\ RLess(ret.out[1], ret.p1)
    /\ RAdd(ret.out[1], ret.out[2]) = One

EvServed == ret.op = "ev_from_prob_and_odds"

\* Decimal odds of the recorded call.
DecimalOdds == american_to_decimal(ret.odds)

InUnit(p) == RLess(Zero, p) /\ RLess(p, One)

\* C21: ev_from_prob_and_odds(p, price) = p * (d - 1) - (1 - p) with d the
\* decimal odds of the price; for p in (0, 1) and d > 1 a larger p in (0, 1)
\* at the same price gives a strictly larger value, and a price of larger
\* decimal odds at the same p gives a strictly larger value (in exact
\* arithmetic).
C21_EvIncreasing ==
    EvServed =>
        /\ ret.out = RSub(RMul(ret.p, RSub(DecimalOdds, One)),
                          RSub(One, ret.p))
        /\ (InUnit(ret.p) /\ RLess(One, DecimalOdds)) =>
              /\ \A p \in ProbArgs :
                    (InUnit(p) /\ RLess(ret.p, p)) =>
                        RLess(ret.out, ev_from_prob_and_odds(p, ret.odds))
              /\ \A odds \in OddsArgs :
                    RLess(DecimalOdds, american_to_decimal(odds)) =>
                        RLess(ret.out, ev_from_prob_and_odds(ret.p, odds))

\* A call that has both a larger probability and a longer price to compare
\* with: the smaller interior probability at the shortest price.
C21_Witness ==
    /\ EvServed
    /\ InUnit(ret.p)
    /\ RLess(One, DecimalOdds)
    /\ \E p \in ProbArgs : InUnit(p) /\ RLess(ret.p, p)
    /\ \E odds \in OddsArgs : RLess(DecimalOdds, american_to_decimal(odds))
    /\ RLess(ret.out, Zero)

----------------------------------------------------------------------------
(* Properties of the strength prior.                                       *)

StrengthServed == ret.op = "get_team_strength"

DeltaServed == ret.op = "strength_delta"

\* C22: get_team_strength returns a value in [0, 1] for every sport and
\* competitor, and exactly 0.5 for a competitor without a known strength
\* (no competitor has one; the empty and the missing identifier included);
\* strength_delta is strength(home) - strength(away) and lies in [-1, 1].
C22_StrengthRange ==
    /\ StrengthServed =>
          /\ RLeq(Zero, ret.out) /\ RLeq(ret.out, One)
          /\ ret.out = Half
    /\ DeltaServed =>
          /\ ret.out = RSub(get_team_strength(ret.sport, ret.home_team),
                            get_team_strength(ret.sport, ret.away_team))
          /\ RLeq(R(-1), ret.out) /\ RLeq(ret.out, One)

\* The strength of a named team in a sport without calibration.
C22_Witness ==
    /\ StrengthServed
    /\ ret.team = "Royals"
    /\ ret.sport = "curling"
    /\ ret.out = Half

----------------------------------------------------------------------------
(* Properties of the engine as a whole.                                    *)

\* The result of repeating the recorded call, with the recorded arguments,
\* in the present state.
Recall ==
    CASE ret.op = "best_moneyline_prices" ->
            best_moneyline_prices(bms, ret.home_team, ret.away_team)
      [] ret.op = "best_spread_prices" ->
            best_spread_prices(bms, ret.home_team, ret.away_team,
                               ret.home_line, ret.away_line)
      [] ret.op = "best_total_prices" -> best_total_prices(bms, ret.point)
      [] ret.op = "ml_probability" ->
            ml_probability(ret.home_team, ret.away_team, ret.sport,
                           ret.home_ml, ret.away_ml)
      [] ret.op = "spread_cover_probability" ->
            spread_cover_probability(ret.spread_home, ret.sport)
      [] ret.op = "total_over_under_probability" ->
            total_over_under_probability(ret.total_line, ret.sport)
      [] ret.op = "get_team_strength" ->
            get_team_strength(ret.sport, ret.team)
      [] ret.op = "strength_delta" ->
            strength_delta(ret.sport, ret.home_team, ret.away_team)
      [] ret.op = "implied_prob" -> implied_prob(ret.odds)
      [] ret.op = "remove_vig_two_way" -> remove_vig_two_way(ret.p1, ret.p2)
      [] ret.op = "kelly_fraction" ->
            kelly_fraction(ret.p, ret.odds, ret.k, ret.cap)
      [] ret.op = "ev_from_prob_and_odds" ->
            ev_from_prob_and_odds(ret.p, ret.odds)

----------------------------------------------------------------------------
(* Orientation of the markets.                                             *)

Reverse(s) == [j \in 1..Len(s) |-> s[Len(s) + 1 - j]]

\* The bookmaker list with the outcomes of every market in reverse order.
Flipped(bookmakers) ==
    [i \in 1..Len(bookmakers) |->
        [bookmakers[i] EXCEPT !.markets =
            [k \in 1..Len(bookmakers[i].markets) |->
                [bookmakers[i].markets[k] EXCEPT
                    !.outcomes = Reverse(bookmakers[i].markets[k].outcomes)]]]]

\* What the caller of best_spread_prices sees: the two quotes of a call that
\* returned, the failure alone of a call that raised.
Outcome(out) == IF out.raised THEN [raised |-> TRUE] ELSE out

\* C24: best_moneyline_prices and best_spread_prices find the sides by
\* competitor name, not by position: the recorded call gives the same
\* outcome (the same quotes, or the same failure) on the bookmaker list with
\* every market's outcomes in reverse order; and no call changes the
\* bookmaker list.
C24_OrientationFree ==
    /\ [](/\ ret.op = "best_moneyline_prices" =>
                ret.out = best_moneyline_prices(Flipped(bms), ret.home_team,
                                                ret.away_team)
          /\ ret.op = "best_spread_prices" =>
                Outcome(ret.out) =
                   Outcome(best_spread_prices(Flipped(bms), ret.home_team,
                                              ret.away_team, ret.home_line,
                                              ret.away_line)))
    /\ [][bms' = bms]_vars

\* A moneyline call that found both sides in a list where one market has
\* the away side first and another the home side first.
C24_Witness ==
    /\ ret.op = "best_moneyline_prices"
    /\ ret.out.home # None /\ ret.out.away # None
    /\ \E i, k \in 1..Len(bms) :
          /\ \E m \in Range(bms[i].markets) :
                /\ m.key = "h2h"
                /\ _normalize(m.outcomes[1].name) = _normalize(ret.home_team)
          /\ \E m \in Range(bms[k].markets) :
                /\ m.key = "h2h"
                /\ _normalize(m.outcomes[1].name) = _normalize(ret.away_team)

----------------------------------------------------------------------------
(* Sign consistency of the pick metrics.                                   *)

\* edge = p - implied_prob(price) of the recorded call is positive.
EdgePositive == RLess(implied_prob(ret.odds), ret.p)

\* C25: for a nonzero price implied_prob(price) * american_to_decimal(price)
\* is 1; for p in [0, 1] ev_from_prob_and_odds(p, price) is positive exactly
\* when the edge p - implied_prob(price) is positive, and with k > 0 and
\* cap > 0 kelly_fraction(p, price, k, cap) is positive exactly when the
\* edge is positive (in exact arithmetic).
C25_SignConsistency ==
    /\ (ImpliedServed /\ ret.odds # Zero) =>
          RMul(ret.out, american_to_decimal(ret.odds)) = One
    /\ (EvServed /\ ret.odds # Zero) =>
          (RLess(Zero, ret.out) <=> EdgePositive)
    /\ (KellyServed /\ ret.odds # Zero /\ RLess(Zero, ret.k)
                    /\ RLess(Zero, ret.cap)) =>
          (RLess(Zero, ret.out) <=> EdgePositive)

\* A positive stake on a favourite's price with a positive edge.
C25_Witness ==
    /\ KellyServed
    /\ RLess(ret.odds, Zero)
    /\ RLess(Zero, ret.k) /\ RLess(Zero, ret.cap)
    /\ EdgePositive
    /\ RLess(Zero, ret.out)

----------------------------------------------------------------------------
(* Properties of the saved bets.                                           *)

\* C26: api_delete_bet deletes a saved bet only for the owner of the bet's
\* parlay: a request answered with success removed only bets whose parlay
\* belongs to the requester, and a request answered with an error left the
\* tables unchanged; so for every other requester, the anonymous one
\* included, the bet and its parlay stay as they were.
C26_OwnerOnlyDelete ==
    [][ret'.op = "api_delete_bet" =>
          IF ret'.status = 200
          THEN \A b \in db.bets \ db'.bets :
                  db.parlays[b.parlay_id].user_id = ret'.user
          ELSE db' = db]_vars

\* C27: after any sequence of api_save_bet requests, interleaved ones
\* included, no user owns more than 5 parlays with status 'active'.
C27_AtMostFiveActive ==
    \A user \in Users : Cardinality(ActiveParlays(db, user)) <= 5

----------------------------------------------------------------------------
(* Properties of the scheduled jobs.                                       *)

Rolled == ret.op = "_rollover_game_statuses"

\* upcoming -> live -> completed
StatusRank(status) ==
    IF status = "upcoming" THEN 1 ELSE IF status = "live" THEN 2 ELSE 3

\* C28: after _rollover_game_statuses has run at time now, for every game:
\* if it was 'upcoming' or 'live' and dated before now - 6h it is
\* 'completed'; if it was 'upcoming' and dated from now - 6h to now it is
\* 'live'; if it is dated at or before now it is not 'upcoming'; if it was
\* 'completed' or is dated after now its status is unchanged; its status
\* never moves backward, and nothing but the status changes.
C28_Rollover ==
    Rolled =>
        /\ Len(db.games) = Len(ret.before)
        /\ \A i \in 1..Len(ret.before) :
              /\ (/\ ret.before[i].status \in {"upcoming", "live"}
                  /\ ret.before[i].date < ret.now - 6)
                    => db.games[i].status = "completed"
              /\ (/\ ret.before[i].status = "upcoming"
                  /\ ret.now - 6 <= ret.before[i].date
                  /\ ret.before[i].date <= ret.now)
                    => db.games[i].status = "live"
              /\ ret.before[i].date <= ret.now
                    => db.games[i].status # "upcoming"
              /\ (ret.before[i].status = "completed"
                     \/ ret.before[i].date > ret.now)
                    => db.games[i].status = ret.before[i].status
              /\ StatusRank(ret.before[i].status)
                    <= StatusRank(db.games[i].status)
              /\ db.games[i] =
                    [ret.before[i] EXCEPT !.status = db.games[i].status]

\* A run that completed a 'live' game dated before the cutoff and left a
\* game dated after now 'upcoming'.
C28_Witness ==
    /\ Rolled
    /\ \E i \in 1..Len(ret.before) :
          /\ ret.before[i].status = "live"
          /\ ret.before[i].date < ret.now - 6
          /\ db.games[i].status = "completed"
    /\ \E i \in 1..Len(ret.before) :
          /\ ret.before[i].date > ret.now
          /\ db.games[i].status = "upcoming"

Refreshed == ret.op = "_update_odds_for_upcoming"

\* C29: after an odds refresh, a game that was 'completed' or has no
\* matching odds record is as it was before, and a game matched to a record
\* keeps its stored spread, total, home_moneyline, away_moneyline and
\* bookmaker wherever the record's value is None.
C29_KeepsKnownOdds ==
    Refreshed =>
        \A i \in 1..Len(ret.before) :
            IF \/ ret.before[i].status = "completed"
               \/ Match(ret.before[i], ret.odds) = <<>>
            THEN db.games[i] = ret.before[i]
            ELSE /\ Match(ret.before[i], ret.odds)[1].spread = None
                       => db.games[i].spread = ret.before[i].spread
                 /\ Match(ret.before[i], ret.odds)[1].total = None
                       => db.games[i].total = ret.before[i].total
                 /\ Match(ret.before[i], ret.odds)[1].home_moneyline = None
                       => db.games[i].home_moneyline
                             = ret.before[i].home_moneyline
                 /\ Match(ret.before[i], ret.odds)[1].away_moneyline = None
                       => db.games[i].away_moneyline
                             = ret.before[i].away_moneyline
                 /\ Match(ret.before[i], ret.odds)[1].bookmaker = NoneStr
                       => db.games[i].bookmaker = ret.before[i].bookmaker

\* The game is 'upcoming' or 'live' and no fetched record has its key, but
\* one has the key with home and away exchanged.
ReversedOnly(game, odds) ==
    /\ game.status \in {"upcoming", "live"}
    /\ Lookup(odds, game.home_team, game.away_team, lower(game.sport)) = <<>>
    /\ Lookup(odds, game.away_team, game.home_team, lower(game.sport)) # <<>>

\* C30: after an odds refresh, a game matched only by the reversed key has
\* as home_moneyline the price the record quotes for the game's home team
\* (the record's away_moneyline), as away_moneyline the price for the
\* game's away team (the record's home_moneyline) and as spread the line of
\* the game's home team (the opposite of the record's spread, which is the
\* line of the record's home team), wherever the record quotes one.
C30_PricesFollowTeams ==
    Refreshed =>
        \A i \in 1..Len(ret.before) :
            ReversedOnly(ret.before[i], ret.odds) =>
                /\ Match(ret.before[i], ret.odds)[1].away_moneyline # None
                      => db.games[i].home_moneyline =
                            Match(ret.before[i], ret.odds)[1].away_moneyline
                /\ Match(ret.before[i], ret.odds)[1].home_moneyline # None
                      => db.games[i].away_moneyline =
                            Match(ret.before[i], ret.odds)[1].home_moneyline
                /\ Match(ret.before[i], ret.odds)[1].spread # None
                      => db.games[i].spread =
                            RNeg(Match(ret.before[i], ret.odds)[1].spread)

====
